---- MODULE Spec2Model ----
(***************************************************************************)
(* The events package of the docker daemon (src/events/events.go): a       *)
(* bounded history of event records, a registry of listener channels, the  *)
(* fan-out of every logged event to the listeners and the replay-then-tail *)
(* session of the "events" job.                                            *)
(*                                                                         *)
(* Goroutines are modelled by their position (pc).  Log jobs and the       *)
(* goroutines they start are the entries of logs, "events" jobs are the    *)
(* sessions 1..NumSessions (the listener channel a session makes is named  *)
(* by the session), and one more caller invokes unsubscribe directly on a  *)
(* listener, as code of the package may.                                   *)
(***************************************************************************)
EXTENDS Integers, Sequences, FiniteSets, TLC

\* ---------------------------------------------------------------- bounds
NumSessions == 2
MaxPublish == 2
MaxHistory == 66
MaxTime == 2
MaxExtUnsub == 1

\* ------------------------------------------------------------- constants
eventsLimit == 64

\* --------------------------------------------------------------- strings
\* A Go string is the sequence of its characters.
Colon == ":"

\* strings.Contains(field, ":")
Contains(field, c) == \E i \in 1..Len(field) : field[i] = c

\* strings.Split(field, ":")[0]: the characters before the first ":"
SplitFirst(field) ==
    LET first == CHOOSE i \in 1..Len(field) :
                     /\ field[i] = Colon
                     /\ \A j \in 1..(i - 1) : field[j] # Colon
    IN  IF Contains(field, Colon) THEN SubSeq(field, 1, first - 1) ELSE field

Sessions == 1..NumSessions

NoFilters == [event |-> <<>>, image |-> <<>>, container |-> <<>>]

\* The values of the "filters" parameter of an events job: the text the
\* filter parser rejects, no filter, and a filter on the event kind.
FilterParams ==
    { [ok |-> FALSE, args |-> NoFilters],
      [ok |-> TRUE, args |-> NoFilters],
      [ok |-> TRUE, args |-> [NoFilters EXCEPT !.event = << <<"s">> >>]] }

\* The argument lists of a log job: two well-formed ones and a short one.
LogArgs ==
    { << <<"c">>, <<"x">>, <<"i", ":", "t">> >>,
      << <<"s">>, <<"x">>, <<"i", ":", "t">> >>,
      << <<"c">>, <<"x">> >> }

\* The one argument list used where only the history matters.
PlainArgs == { << <<"c">>, <<"x">>, <<"i", ":", "t">> >> }

\* The parameters of an events job: since and until are times of the model
\* or 0.
AllInputs == [since : 0..MaxTime, until : 0..MaxTime, param : FilterParams]

\* Jobs without filters that replay from the first second or not at all
\* and end at the first second or never.
TailInputs == [since : {0, 1}, until : {0, 1}, param : {[ok |-> TRUE, args |-> NoFilters]}]

\* The argument lists of the log jobs that the filters tell apart: a kind with
\* or without ":", an id or none, an image name with a tag and one with a
\* registry port as well.
FilterLogArgs ==
    { <<st, id, from>> : st \in { <<"s">>, <<"s", ":", "t">> },
                         id \in { <<"x">>, <<>> },
                         from \in { <<"i", ":", "t">>, <<"r", ":", "p", ":", "t">> } }

\* The filters of an events job per dimension: none or one accepted value;
\* "n" is the name of container "x" and "q" names no container.
FilterArgs ==
    [event : { <<>>, << <<"s">> >> },
     image : { <<>>, << <<"i">> >>, << <<"r", ":", "p">> >> },
     container : { <<>>, << <<"n">> >>, << <<"q">> >> }]

\* Events jobs with filters and no deadline that replay or only tail.
FilterInputs ==
    [since : {0, 1}, until : {0}, param : {[ok |-> TRUE, args |-> a] : a \in FilterArgs}]

VARIABLES
    now,          \* time.Now().Unix()
    msgs,         \* the JSONMessage objects allocated so far; a pointer is an index
    events,       \* Events.events: pointers, oldest first
    subscribers,  \* Events.subscribers: listener channels
    mu,           \* Events.mu: [w |-> the holder of the write lock, r |-> readers]
    logs,         \* the log jobs in call order and the goroutine of each
    sess,         \* the events jobs
    closes,       \* how many times close() was called on each listener channel
    ext,          \* the direct calls of unsubscribe made so far
    unsubRet,     \* per listener, the values unsubscribe returned, in order
    count         \* the subscribers_count job: its position and the count it read

vars == <<now, msgs, events, subscribers, mu, logs, sess, closes, ext, unsubRet, count>>

Free == <<"free", 0>>
G(k) == <<"log", k>>
S(s) == <<"get", s>>
C == <<"count", 0>>

NoTimer == [active |-> FALSE, fired |-> FALSE]

IdleSession ==
    [pc |-> "idle", since |-> 0, until |-> 0, param |-> [ok |-> TRUE, args |-> NoFilters],
     filters |-> NoFilters, timeout |-> NoTimer, i |-> 0, cur |-> 0,
     out |-> <<>>, ret |-> "none", exit |-> "none", began |-> 0, gap |-> {},
     fault |-> "none"]

\* New(): an empty history of capacity eventsLimit, no subscriber.
Init ==
    /\ now = 1
    /\ msgs = <<>>
    /\ events = <<>>
    /\ subscribers = <<>>
    /\ mu = [w |-> Free, r |-> {}]
    /\ logs = <<>>
    /\ sess = [s \in Sessions |-> IdleSession]
    /\ closes = [s \in Sessions |-> 0]
    /\ ext = 0
    /\ unsubRet = [s \in Sessions |-> <<>>]
    /\ count = [pc |-> "idle", c |-> 0]

\* The wall clock advances.
Tick ==
    /\ now < MaxTime
    /\ now' = now + 1
    /\ UNCHANGED <<msgs, events, subscribers, mu, logs, sess, closes, ext, unsubRet, count>>

\* A write lock that does not wait for the readers.
CanLockDespiteReaders == mu.w = Free

\* A write lock that does not wait for another writer.
CanLockDespiteWriter == mu.r = {}

\* sync.RWMutex
CanLock == mu.w = Free /\ mu.r = {}
CanRLock == mu.w = Free

\* --------------------------------------------------- Events.SubscribersCount
\* subscribersCount: e.mu.RLock()
CountRLock ==
    /\ count.pc = "idle"
    /\ CanRLock
    /\ mu' = [mu EXCEPT !.r = @ \cup {C}]
    /\ count' = [count EXCEPT !.pc = "read"]
    /\ UNCHANGED <<now, msgs, events, subscribers, logs, sess, closes, ext, unsubRet>>

\* c := len(e.subscribers); e.mu.RUnlock(); SubscribersCount writes c to the
\* output of its job.
CountRead ==
    /\ count.pc = "read"
    /\ mu' = [mu EXCEPT !.r = @ \ {C}]
    /\ count' = [pc |-> "idle", c |-> Len(subscribers)]
    /\ UNCHANGED <<now, msgs, events, subscribers, logs, sess, closes, ext, unsubRet>>

\* --------------------------------------------------------------- Events.Log
InFlight == {k \in 1..Len(logs) : logs[k].pc \notin {"usage", "done"}}

\* Log(job): a usage error unless there are three arguments, else the
\* goroutine  go e.log(...)  is started and Log returns.
LogCall(argSet, maxCalls, maxInFlight) ==
    /\ Len(logs) < maxCalls
    /\ Cardinality(InFlight) < maxInFlight
    /\ \E args \in argSet :
         logs' = Append(logs,
                    [pc |-> IF Len(args) # 3 THEN "usage" ELSE "lock",
                     args |-> args, i |-> 0, jm |-> 0])
    /\ UNCHANGED <<now, msgs, events, subscribers, mu, sess, closes, ext, unsubRet, count>>

\* An insertion that never discards.
InsertedNoEvict(evs, jm) == Append(evs, jm)

\* The history after jm is logged: at capacity the oldest record is
\* discarded (copy(e.events, e.events[1:]) and the last slot overwritten),
\* otherwise jm is appended.
Inserted(evs, jm) ==
    IF Len(evs) = eventsLimit
    THEN [n \in 1..Len(evs) |-> IF n = Len(evs) THEN jm ELSE evs[n + 1]]
    ELSE Append(evs, jm)

\* The sessions that are registered and have not yet taken the read lock of
\* their replay.
BeforeReplay(s) == sess[s].pc = "rlock"

\* A log that releases the lock after the insertion, before its fan-out.
LogInsertUnlocked(k) ==
    /\ logs[k].pc = "lock"
    /\ CanLock
    /\ LET jm == Len(msgs) + 1
           a == logs[k].args
       IN  /\ msgs' = Append(msgs, [Status |-> a[1], ID |-> a[2], From |-> a[3],
                                    Time |-> now])
           /\ events' = Inserted(events, jm)
           /\ logs' = [logs EXCEPT ![k].pc = "fanout", ![k].jm = jm, ![k].i = 1]
           /\ sess' = [s \in Sessions |->
                         IF BeforeReplay(s)
                         THEN [sess[s] EXCEPT !.gap = @ \cup {jm}]
                         ELSE sess[s]]
    /\ UNCHANGED <<now, subscribers, mu, closes, ext, unsubRet, count>>

\* log: e.mu.Lock(), the record is made with the current time and put in
\* the history.
LogInsert(k) ==
    /\ logs[k].pc = "lock"
    /\ CanLock
    /\ mu' = [mu EXCEPT !.w = G(k)]
    /\ LET jm == Len(msgs) + 1
           a == logs[k].args
       IN  /\ msgs' = Append(msgs, [Status |-> a[1], ID |-> a[2], From |-> a[3],
                                    Time |-> now])
           /\ events' = Inserted(events, jm)
           /\ logs' = [logs EXCEPT ![k].pc = "fanout", ![k].jm = jm, ![k].i = 1]
           /\ sess' = [s \in Sessions |->
                         IF BeforeReplay(s)
                         THEN [sess[s] EXCEPT !.gap = @ \cup {jm}]
                         ELSE sess[s]]
    /\ UNCHANGED <<now, subscribers, closes, ext, unsubRet, count>>

\* A session blocked in the select of its live loop is ready to receive.
Receiving(s) == sess[s].pc = "select"

\* case s <- jm: the listener's session is waiting in its select and takes
\* the event.
Handoff(k) ==
    /\ logs[k].pc = "fanout"
    /\ logs[k].i <= Len(subscribers)
    /\ LET s == subscribers[logs[k].i]
       IN  /\ Receiving(s)
           /\ sess' = [sess EXCEPT ![s].pc = "write", ![s].cur = logs[k].jm]
           /\ logs' = [logs EXCEPT ![k].i = @ + 1]
    /\ UNCHANGED <<now, msgs, events, subscribers, mu, closes, ext, unsubRet, count>>

\* A window that may pass although the listener's session is receiving.
GraceAnyTime(s) == TRUE

\* A window that never passes.
GraceNever(s) == FALSE

\* The 100ms window of a listener passes only while nobody receives on it.
GraceOver(s) == ~Receiving(s)

\* case <-time.After(100 * time.Millisecond): log moves to the next listener.
HandoffTimeout(k) ==
    /\ logs[k].pc = "fanout"
    /\ logs[k].i <= Len(subscribers)
    /\ GraceOver(subscribers[logs[k].i])
    /\ logs' = [logs EXCEPT ![k].i = @ + 1]
    /\ UNCHANGED <<now, msgs, events, subscribers, mu, sess, closes, ext, unsubRet, count>>

\* The range loop is over: e.mu.Unlock()
LogUnlock(k) ==
    /\ logs[k].pc = "fanout"
    /\ logs[k].i > Len(subscribers)
    /\ mu' = [mu EXCEPT !.w = Free]
    /\ logs' = [logs EXCEPT ![k].pc = "done", ![k].i = 0]
    /\ UNCHANGED <<now, msgs, events, subscribers, sess, closes, ext, unsubRet, count>>

\* ------------------------------------------------------------ writeEvent
\* The container_inspect job of the engine: the full id of the container a
\* name or an id denotes; it fails for anything else.
ContainerInspect(name) ==
    IF name \in {<<"n">>, <<"x">>}
    THEN [err |-> FALSE, ID |-> <<"x">>]
    ELSE [err |-> TRUE, ID |-> <<>>]

\* GetContainerId: "" when the job fails, else the ID it printed.
GetContainerId(name) ==
    IF ContainerInspect(name).err THEN <<>> ELSE ContainerInspect(name).ID

\* isFiltered := func(field string, filter []string) bool
isFiltered(field, filter) ==
    IF Len(filter) = 0
    THEN FALSE
    ELSE ~\E n \in 1..Len(filter) :
            \/ filter[n] = field
            \/ Contains(field, Colon) /\ SplitFirst(field) = filter[n]

\* eventFilters["container"][i] = GetContainerId(job.Eng, cn)
Resolved(f) ==
    [f EXCEPT !.container = [n \in 1..Len(@) |-> GetContainerId(@[n])]]

\* The condition under which writeEvent returns without writing.
Suppressed(ev, f) ==
    \/ isFiltered(ev.Status, f.event)
    \/ isFiltered(ev.From, f.image)
    \/ isFiltered(ev.ID, f.container)

\* json.Marshal(event): the fields of the record, without its identity.
Marshal(ev) ==
    [status |-> ev.Status, id |-> ev.ID, from |-> ev.From, time |-> ev.Time]

\* A writeEvent that returns the error of json.Marshal to its caller.
writeEventMarshalFatal(r, jm, mode, fails, merr) ==
    LET f == Resolved(r.filters)
    IN  IF Suppressed(msgs[jm], f)
        THEN [r EXCEPT !.filters = f, !.fault = "none"]
        ELSE IF merr
        THEN [r EXCEPT !.filters = f, !.fault = "marshal", !.ret = "err"]
        ELSE IF fails
        THEN [r EXCEPT !.filters = f, !.fault = "write", !.ret = "err"]
        ELSE [r EXCEPT !.filters = f, !.fault = "none",
                       !.out = Append(@, [jm |-> jm, mode |-> mode,
                                          b |-> Marshal(msgs[jm])])]

\* writeEvent for session record r and event jm; merr says whether
\* json.Marshal returns an error and fails whether job.Stdout.Write does.
\* The result is the session record after the call, with ret = "err" when
\* writeEvent returns the error; fault records what the call met.
writeEvent(r, jm, mode, fails, merr) ==
    LET f == Resolved(r.filters)
    IN  IF Suppressed(msgs[jm], f)
        THEN [r EXCEPT !.filters = f, !.fault = "none"]
        ELSE IF merr
        THEN [r EXCEPT !.filters = f, !.fault = "marshal"]
        ELSE IF fails
        THEN [r EXCEPT !.filters = f, !.fault = "write", !.ret = "err"]
        ELSE [r EXCEPT !.filters = f, !.fault = "none",
                       !.out = Append(@, [jm |-> jm, mode |-> mode,
                                          b |-> Marshal(msgs[jm])])]

\* ---------------------------------------------------------------- Events.Get
\* An order in which the history is read before the listener is registered.
GetOrderReplayFirst(at, since) ==
    CASE at = "parse" -> IF since # 0 THEN "rlock" ELSE "subscribe"
      [] at = "replay" -> "subscribe"
      [] at = "subscribe" -> "select"

\* The order of Get after its parameters are parsed: e.subscribe, then
\* writeCurrent if since != 0, then the live loop.  (job.Stdout.Write(nil)
\* in between writes nothing and its result is dropped.)
GetOrder(at, since) ==
    CASE at = "parse" -> "subscribe"
      [] at = "subscribe" -> IF since # 0 THEN "rlock" ELSE "select"
      [] at = "replay" -> "select"

\* A return that leaves out the deferred call after a failed replay.
ReturnNoDefer(r, ret, exit) ==
    [r EXCEPT !.pc = IF exit = "replay" THEN "done" ELSE "unsub",
              !.ret = ret, !.exit = exit, !.i = 0, !.cur = 0]

\* Get returns ret once the listener is registered: the deferred
\* e.unsubscribe(listener) is still to run.
Return(r, ret, exit) ==
    [r EXCEPT !.pc = "unsub", !.ret = ret, !.exit = exit, !.i = 0, !.cur = 0]

\* since, until and filters are read from the job and the timer is created:
\* time.NewTimer(time.Unix(until, 0).Sub(time.Now())).
GetStart(s, inputs) ==
    /\ sess[s].pc = "idle"
    /\ \E in \in inputs :
         sess' = [sess EXCEPT ![s] =
                    [@ EXCEPT !.pc = "parse", !.since = in.since, !.until = in.until,
                              !.param = in.param,
                              !.began = now,
                              !.timeout = [active |-> TRUE, fired |-> FALSE]]]
    /\ UNCHANGED <<now, msgs, events, subscribers, mu, logs, closes, ext, unsubRet, count>>

\* A timer that never delivers.
TimerDueNever(s) == FALSE

\* The runtime delivers the time on timeout.C once the duration, until less
\* the time Get began, has passed; a duration that is zero or negative has
\* passed at once.
TimerDue(s) ==
    /\ sess[s].timeout.active
    /\ now - sess[s].began >= sess[s].until - sess[s].began

TimerFire(s) ==
    /\ TimerDue(s)
    /\ sess' = [sess EXCEPT ![s].timeout = [active |-> FALSE, fired |-> TRUE]]
    /\ UNCHANGED <<now, msgs, events, subscribers, mu, logs, closes, ext, unsubRet, count>>

\* timeout.Stop() keeps a timer that has not fired from firing; it does not
\* take back a time already delivered on timeout.C.
Stopped(t) == [t EXCEPT !.active = FALSE]

\* A Get that goes on, without filters, when filters.FromParam fails.
GetParseIgnoreError(s) ==
    /\ sess[s].pc = "parse"
    /\ sess' = [sess EXCEPT ![s] =
                  [@ EXCEPT !.pc = GetOrder("parse", sess[s].since),
                            !.filters = sess[s].param.args,
                            !.timeout = IF sess[s].until = 0 THEN Stopped(@) ELSE @]]
    /\ UNCHANGED <<now, msgs, events, subscribers, mu, logs, closes, ext, unsubRet, count>>

\* filters.FromParam: an error ends Get before anything is registered.
\* Otherwise: if until == 0 { timeout.Stop() }
GetParse(s) ==
    /\ sess[s].pc = "parse"
    /\ sess' = [sess EXCEPT ![s] =
                  IF sess[s].param.ok
                  THEN [@ EXCEPT !.pc = GetOrder("parse", sess[s].since), !.filters = sess[s].param.args,
                                 !.timeout = IF sess[s].until = 0 THEN Stopped(@) ELSE @]
                  ELSE [@ EXCEPT !.pc = "done", !.ret = "err", !.exit = "filters",
                                 !.timeout = NoTimer]]
    /\ UNCHANGED <<now, msgs, events, subscribers, mu, logs, closes, ext, unsubRet, count>>

\* e.subscribe(listener): under the write lock,
\* e.subscribers = append(e.subscribers, l)
Subscribe(s) ==
    /\ sess[s].pc = "subscribe"
    /\ CanLock
    /\ subscribers' = Append(subscribers, s)
    /\ sess' = [sess EXCEPT ![s].pc = GetOrder("subscribe", sess[s].since)]
    /\ UNCHANGED <<now, msgs, events, mu, logs, closes, ext, unsubRet, count>>

\* writeCurrent: e.mu.RLock()
ReplayLock(s) ==
    /\ sess[s].pc = "rlock"
    /\ CanRLock
    /\ mu' = [mu EXCEPT !.r = @ \cup {S(s)}]
    /\ sess' = [sess EXCEPT ![s].pc = "replay", ![s].i = 1]
    /\ UNCHANGED <<now, msgs, events, subscribers, logs, closes, ext, unsubRet, count>>

\* A range without its upper bound.
InRangeNoUntil(ev, since, until) == ev.Time >= since

\* event.Time >= since && (event.Time <= until || until == 0)
InRange(ev, since, until) ==
    ev.Time >= since /\ (ev.Time <= until \/ until = 0)

\* A writeCurrent that returns a write error without e.mu.RUnlock().
writeCurrentKeepLock(s, merrs) ==
    /\ sess[s].pc = "replay"
    /\ sess[s].i <= Len(events)
    /\ \E fails \in BOOLEAN, merr \in merrs :
         LET r == sess[s]
             jm == events[r.i]
             w == IF InRange(msgs[jm], r.since, r.until)
                  THEN writeEvent(r, jm, "replay", fails, merr)
                  ELSE r
         IN  IF w.ret = "err"
             THEN sess' = [sess EXCEPT ![s] = Return(w, "err", "replay")]
             ELSE sess' = [sess EXCEPT ![s] = [w EXCEPT !.i = @ + 1]]
    /\ UNCHANGED <<now, msgs, events, subscribers, mu, logs, closes, ext, unsubRet, count>>

\* One turn of the loop of writeCurrent, with the results json.Marshal may
\* give drawn from merrs.  A write error releases the read lock and ends
\* Get, which runs the deferred unsubscribe.
writeCurrent(s, merrs) ==
    /\ sess[s].pc = "replay"
    /\ sess[s].i <= Len(events)
    /\ \E fails \in BOOLEAN, merr \in merrs :
         LET r == sess[s]
             jm == events[r.i]
             w == IF InRange(msgs[jm], r.since, r.until)
                  THEN writeEvent(r, jm, "replay", fails, merr)
                  ELSE r
         IN  IF w.ret = "err"
             THEN /\ sess' = [sess EXCEPT ![s] = Return(w, "err", "replay")]
                  /\ mu' = [mu EXCEPT !.r = @ \ {S(s)}]
             ELSE /\ sess' = [sess EXCEPT ![s] = [w EXCEPT !.i = @ + 1]]
                  /\ mu' = mu
    /\ UNCHANGED <<now, msgs, events, subscribers, logs, closes, ext, unsubRet, count>>

\* json.Marshal of a record that log made, strings and a time, returns no
\* error.
Replay(s) == writeCurrent(s, {FALSE})

\* The loop of writeCurrent is over: e.mu.RUnlock(), and Get enters its
\* live loop.
ReplayUnlock(s) ==
    /\ sess[s].pc = "replay"
    /\ sess[s].i > Len(events)
    /\ mu' = [mu EXCEPT !.r = @ \ {S(s)}]
    /\ sess' = [sess EXCEPT ![s].pc = GetOrder("replay", sess[s].since), ![s].i = 0]
    /\ UNCHANGED <<now, msgs, events, subscribers, logs, closes, ext, unsubRet, count>>

\* After  case event, ok := <-listener  with ok: writeEvent, with the
\* results json.Marshal may give drawn from merrs.
writeReceived(s, merrs) ==
    /\ sess[s].pc = "write"
    /\ \E fails \in BOOLEAN, merr \in merrs :
         LET w == writeEvent(sess[s], sess[s].cur, "live", fails, merr)
         IN  sess' = [sess EXCEPT ![s] =
                        IF w.ret = "err"
                        THEN Return(w, "err", "live")
                        ELSE [w EXCEPT !.pc = "select", !.cur = 0]]
    /\ UNCHANGED <<now, msgs, events, subscribers, mu, logs, closes, ext, unsubRet, count>>

WriteLive(s) == writeReceived(s, {FALSE})

\* case event, ok := <-listener  with !ok: the channel is closed.
RecvClosed(s) ==
    /\ sess[s].pc = "select"
    /\ closes[s] > 0
    /\ sess' = [sess EXCEPT ![s] = Return(@, "nil", "closed")]
    /\ UNCHANGED <<now, msgs, events, subscribers, mu, logs, closes, ext, unsubRet, count>>

\* case <-timeout.C: the time the timer delivered is taken.
RecvTimeout(s) ==
    /\ sess[s].pc = "select"
    /\ sess[s].timeout.fired
    /\ sess' = [sess EXCEPT ![s] =
                  Return([@ EXCEPT !.timeout.fired = FALSE], "nil", "timeout")]
    /\ UNCHANGED <<now, msgs, events, subscribers, mu, logs, closes, ext, unsubRet, count>>

\* --------------------------------------------------------- Events.unsubscribe
IndexOf(subs, l) == CHOOSE n \in 1..Len(subs) :
                        subs[n] = l /\ \A m \in 1..(n - 1) : subs[m] # l

Registered(subs, l) == \E n \in 1..Len(subs) : subs[n] = l

\* A removal that removes nothing.
WithoutNothing(subs, n) == subs

\* A removal that drops the last listener, not the one found.
WithoutLast(subs, n) == SubSeq(subs, 1, Len(subs) - 1)

\* append(e.subscribers[:i], e.subscribers[i+1:]...)
Without(subs, n) == SubSeq(subs, 1, n - 1) \o SubSeq(subs, n + 1, Len(subs))

\* An unsubscribe that closes the listener whether it finds it or not.
unsubscribeCloseAlways(l) ==
    /\ CanLock
    /\ closes' = [closes EXCEPT ![l] = @ + 1]
    /\ IF Registered(subscribers, l)
       THEN /\ subscribers' = Without(subscribers, IndexOf(subscribers, l))
            /\ unsubRet' = [unsubRet EXCEPT ![l] = Append(@, TRUE)]
       ELSE /\ unsubRet' = [unsubRet EXCEPT ![l] = Append(@, FALSE)]
            /\ UNCHANGED subscribers

\* unsubscribe(l) under the write lock: the listener is closed and removed
\* if it is registered; the value returned is recorded.
unsubscribe(l) ==
    /\ CanLock
    /\ IF Registered(subscribers, l)
       THEN /\ closes' = [closes EXCEPT ![l] = @ + 1]
            /\ subscribers' = Without(subscribers, IndexOf(subscribers, l))
            /\ unsubRet' = [unsubRet EXCEPT ![l] = Append(@, TRUE)]
       ELSE /\ unsubRet' = [unsubRet EXCEPT ![l] = Append(@, FALSE)]
            /\ UNCHANGED <<closes, subscribers>>

\* defer e.unsubscribe(listener) runs and Get returns.
Unsubscribe(s) ==
    /\ sess[s].pc = "unsub"
    /\ unsubscribe(s)
    /\ sess' = [sess EXCEPT ![s].pc = "done", ![s].timeout = NoTimer,
                             ![s].filters = NoFilters]
    /\ UNCHANGED <<now, msgs, events, mu, logs, ext, count>>

\* A listener channel is known to others once it has been registered.
Made(l) == sess[l].pc \notin {"idle", "parse", "subscribe"} /\ sess[l].exit # "filters"

\* Another caller in the package calls e.unsubscribe(l).
ExtUnsubscribe(l) ==
    /\ ext < MaxExtUnsub
    /\ Made(l)
    /\ unsubscribe(l)
    /\ ext' = ext + 1
    /\ UNCHANGED <<now, msgs, events, mu, logs, sess, count>>

\* ------------------------------------------------------------- specification
\* The steps of the log jobs and their goroutines up to the fan-out.
LogNext(argSet, maxCalls, maxInFlight) ==
    \/ LogCall(argSet, maxCalls, maxInFlight)
    \/ \E k \in 1..Len(logs) : LogInsert(k)
    \/ \E k \in 1..Len(logs) : LogUnlock(k)

\* The steps of the fan-out.
FanoutNext ==
    \/ \E k \in 1..Len(logs) : Handoff(k)
    \/ \E k \in 1..Len(logs) : HandoffTimeout(k)

\* The steps of the events job s.
GetNext(s, inputs) ==
    \/ GetStart(s, inputs)
    \/ TimerFire(s)
    \/ GetParse(s)
    \/ Subscribe(s)
    \/ ReplayLock(s)
    \/ Replay(s)
    \/ ReplayUnlock(s)
    \/ WriteLive(s)
    \/ RecvClosed(s)
    \/ RecvTimeout(s)
    \/ Unsubscribe(s)

\* Any number of events jobs that tail the bus, log jobs and direct calls of
\* unsubscribe.
Next ==
    \/ LogNext(PlainArgs, MaxPublish, MaxPublish)
    \/ FanoutNext
    \/ \E s \in Sessions : GetNext(s, TailInputs)
    \/ \E l \in Sessions : ExtUnsubscribe(l)

Spec == Init /\ [][Next]_vars

\* One events job with any parameters, log jobs and direct calls of
\* unsubscribe.
NextGet ==
    \/ Tick
    \/ LogNext(LogArgs, MaxPublish, MaxPublish)
    \/ FanoutNext
    \/ GetNext(1, AllInputs)
    \/ ExtUnsubscribe(1)

SpecGet == Init /\ [][NextGet]_vars

\* Log jobs one after the other and nothing else: the history alone.
NextLog ==
    \/ Tick
    \/ LogNext(PlainArgs, MaxHistory, 1)

SpecLog == Init /\ [][NextLog]_vars

\* One events job with filters, log jobs one after the other and direct
\* calls of unsubscribe.
NextFilter ==
    \/ LogNext(FilterLogArgs, MaxPublish, 1)
    \/ FanoutNext
    \/ GetNext(1, FilterInputs)
    \/ ExtUnsubscribe(1)

SpecFilter == Init /\ [][NextFilter]_vars

\* Events jobs without deadline and filters that replay or only tail.
WriteInputs == [since : {0, 1}, until : {0}, param : {[ok |-> TRUE, args |-> NoFilters]}]

\* The steps of the events job s when json.Marshal may return an error.
GetNextMarshal(s, inputs) ==
    \/ GetStart(s, inputs)
    \/ TimerFire(s)
    \/ GetParse(s)
    \/ Subscribe(s)
    \/ ReplayLock(s)
    \/ writeCurrent(s, BOOLEAN)
    \/ ReplayUnlock(s)
    \/ writeReceived(s, BOOLEAN)
    \/ RecvClosed(s)
    \/ RecvTimeout(s)
    \/ Unsubscribe(s)

\* Events jobs and log jobs where both json.Marshal and the write to the
\* output may fail.
NextWrite ==
    \/ LogNext(PlainArgs, MaxPublish, MaxPublish)
    \/ FanoutNext
    \/ \E s \in Sessions : GetNextMarshal(s, WriteInputs)
    \/ \E l \in Sessions : ExtUnsubscribe(l)

SpecWrite == Init /\ [][NextWrite]_vars

\* Events jobs, log jobs, direct calls of unsubscribe and the
\* subscribers_count job side by side.
NextLock ==
    \/ LogNext(PlainArgs, MaxPublish, MaxPublish)
    \/ FanoutNext
    \/ \E s \in Sessions : GetNext(s, WriteInputs)
    \/ \E l \in Sessions : ExtUnsubscribe(l)
    \/ CountRLock
    \/ CountRead

SpecLock == Init /\ [][NextLock]_vars

\* The steps of the goroutine of log job k.
LogStep(k) ==
    /\ k \in 1..Len(logs)
    /\ \/ LogInsert(k)
       \/ Handoff(k)
       \/ HandoffTimeout(k)
       \/ LogUnlock(k)

\* The steps session s takes under the read lock.
ReplaySteps(s) == Replay(s) \/ ReplayUnlock(s)

\* A goroutine that can run does run, and a write to the output of a
\* session returns; the sessions need not go on otherwise.
LogFairness ==
    /\ \A k \in 1..MaxPublish : WF_vars(LogStep(k))
    /\ \A s \in Sessions : WF_vars(ReplaySteps(s))

FairSpec == Spec /\ LogFairness

\* The steps of the events job s once it has begun.
GetStep(s) ==
    \/ GetParse(s)
    \/ Subscribe(s)
    \/ ReplayLock(s)
    \/ Replay(s)
    \/ ReplayUnlock(s)
    \/ WriteLive(s)
    \/ RecvClosed(s)
    \/ RecvTimeout(s)
    \/ Unsubscribe(s)

\* Every goroutine that can run does run, the clock advances and a timer
\* that is due delivers.
GetFairness ==
    /\ \A k \in 1..MaxPublish : WF_vars(LogStep(k))
    /\ \A s \in Sessions : WF_vars(GetStep(s)) /\ WF_vars(TimerFire(s))
    /\ WF_vars(Tick)

FairGet == SpecGet /\ GetFairness

\* Every goroutine that can run does run, and a write to the output of a
\* session returns.
LockFairness ==
    /\ \A k \in 1..MaxPublish : WF_vars(LogStep(k))
    /\ \A s \in Sessions : WF_vars(GetStep(s))

FairLock == Spec /\ LockFairness

\* The three log jobs of the end-to-end case: create, start and die of one
\* container.
E2EArgs(n) ==
    << <<IF n = 1 THEN "c" ELSE IF n = 2 THEN "s" ELSE "d">>,
       <<"x">>, <<"i", ":", "t">> >>

\* An events job from the first second on, without deadline and filters.
E2EInputs == [since : {1}, until : {0}, param : {[ok |-> TRUE, args |-> NoFilters]}]

\* Two log jobs have returned when the events job begins, and the third log
\* job is called while the events job waits in its live loop.
NextE2E ==
    \/ /\ Len(logs) < 2
       /\ LogCall({E2EArgs(Len(logs) + 1)}, 3, 3)
    \/ /\ Len(logs) = 2
       /\ sess[1].pc = "select"
       /\ LogCall({E2EArgs(3)}, 3, 3)
    \/ \E k \in 1..Len(logs) : LogInsert(k)
    \/ \E k \in 1..Len(logs) : LogUnlock(k)
    \/ FanoutNext
    \/ /\ Len(logs) >= 2
       /\ GetStart(1, E2EInputs)
    \/ TimerFire(1)
    \/ GetParse(1)
    \/ Subscribe(1)
    \/ ReplayLock(1)
    \/ Replay(1)
    \/ ReplayUnlock(1)
    \/ WriteLive(1)
    \/ RecvTimeout(1)
    \/ Unsubscribe(1)

SpecE2E == Init /\ [][NextE2E]_vars

\* ------------------------------------------------------------------ claims
Min(a, b) == IF a < b THEN a ELSE b

\* The pointers of the last n records logged, oldest first.
LastLogged(n) == [m \in 1..n |-> Len(msgs) - n + m]

\* C1: the history holds at most eventsLimit records, and after n records
\* were logged it holds exactly the last min(n, eventsLimit) of them in the
\* order they were logged: logging at capacity evicts the oldest one only.
C1_History ==
    /\ Len(events) <= eventsLimit
    /\ events = LastLogged(Min(Len(msgs), eventsLimit))

\* More records were logged than the history holds: the oldest were evicted.
C1_Witness ==
    /\ Len(msgs) > eventsLimit + 1
    /\ Len(events) = eventsLimit
    /\ events[1] = Len(msgs) - eventsLimit + 1

Range(seq) == {seq[n] : n \in 1..Len(seq)}

\* The replay of session s ran to its end.
ReplayDone(s) ==
    /\ sess[s].since # 0
    /\ sess[s].pc \in {"select", "write", "unsub", "done"}
    /\ sess[s].exit \notin {"filters", "replay"}

\* Session s wrote event jm to its output.
Emitted(s, jm) == \E n \in 1..Len(sess[s].out) : sess[s].out[n].jm = jm

\* The records session s wrote during its replay, in the order written.
Replayed(s) == SelectSeq(sess[s].out, LAMBDA o : o.mode = "replay")

\* C2: a session is registered when it reads the history, and once its
\* replay has run to its end every event that was logged between its
\* registration and its replay, is still in the history, lies in
\* [since, until] (until = 0: no upper end) and passes the filter has been
\* written to the session.
C2_NoGap ==
    \A s \in Sessions :
        /\ sess[s].pc \in {"rlock", "replay"} =>
               Registered(subscribers, s) \/ closes[s] > 0
        /\ ReplayDone(s) =>
               \A jm \in sess[s].gap :
                   ( /\ jm \in Range(events)
                     /\ sess[s].since <= msgs[jm].Time
                     /\ (msgs[jm].Time <= sess[s].until \/ sess[s].until = 0)
                     /\ ~Suppressed(msgs[jm], Resolved(sess[s].param.args)) )
                   => Emitted(s, jm)

\* A replay that ran to its end wrote an event logged after the session was
\* registered, and left out another one, which the filter suppresses.
C2_Witness ==
    \E s \in Sessions :
        /\ ReplayDone(s)
        /\ \E jm \in sess[s].gap : Emitted(s, jm)
        /\ \E jm \in sess[s].gap : ~Emitted(s, jm)

\* C3: a session with until = 0 never ends through its timer.
C3_NoDeadline ==
    \A s \in Sessions : sess[s].until = 0 => sess[s].exit # "timeout"

\* A step of the replay of session s.
ReplayStep(s) ==
    /\ sess[s].pc \in {"rlock", "replay"}
    /\ sess'[s].pc # sess[s].pc \/ sess'[s].i # sess[s].i

\* What the replay of each session has written so far.
C8_Output ==
    \A s \in Sessions :
        LET r == Replayed(s)
        IN  /\ \A n \in 1..Len(r) :
                   /\ sess[s].since # 0
                   /\ sess[s].since <= r[n].b.time
                   /\ r[n].b.time <= sess[s].until \/ sess[s].until = 0
                   /\ r[n].b = Marshal(msgs[r[n].jm])
            /\ \A n, m \in 1..Len(r) : n < m => r[n].jm < r[m].jm
            /\ (sess[s].until # 0 /\ sess[s].until < sess[s].since) =>
                   Len(r) = 0 /\ sess[s].exit # "replay"

\* C8: the replay writes only records with since <= time and (time <= until
\* or until = 0), in the order they were logged, it changes neither the
\* history nor the registry, and with until # 0 and until < since it writes
\* nothing and is no error.
C8_Replay ==
    /\ []C8_Output
    /\ [][\A s \in Sessions :
             ReplayStep(s) => /\ events' = events
                              /\ msgs' = msgs
                              /\ subscribers' = subscribers]_vars

\* A replay that ran to its end wrote one record and left out a later one
\* that is in the history but after until.
C8_Witness ==
    \E s \in Sessions :
        /\ ReplayDone(s)
        /\ sess[s].until # 0
        /\ Len(Replayed(s)) = 1
        /\ \E jm \in Range(events) :
               /\ msgs[jm].Time > sess[s].until
               /\ jm \notin sess[s].gap
               /\ ~Emitted(s, jm)
               /\ jm > Replayed(s)[1].jm

\* The listeners that are registered.
Listening == {l \in Sessions : Registered(subscribers, l)}

\* C4: once Get has returned after registering its listener, on whichever
\* path, the listener is out of the registry and closed; the registry holds
\* exactly the listeners of the sessions that are registered and have not
\* been unsubscribed, once each, so the count is what it was before.
C4_Cleanup ==
    /\ \A s \in Sessions :
           /\ (sess[s].pc = "done" /\ sess[s].exit # "filters") =>
                  ~Registered(subscribers, s) /\ closes[s] = 1
           /\ Registered(subscribers, s) <=>
                  /\ sess[s].pc \in {"rlock", "replay", "select", "write", "unsub"}
                  /\ closes[s] = 0
    /\ Len(subscribers) = Cardinality(Listening)

\* Two sessions have returned, one after a write error in its replay and one
\* through its deadline, and the registry is empty again.
C4_Witness ==
    \E s, u \in Sessions :
        /\ sess[s].pc = "done" /\ sess[s].exit = "replay"
        /\ sess[u].pc = "done" /\ sess[u].exit = "timeout"
        /\ subscribers = <<>>
        /\ closes[s] = 1 /\ closes[u] = 1

\* Goroutine k is in its fan-out: it holds the write lock and its index is
\* in the registry or just past it.
C6_InFanout ==
    \A k \in 1..Len(logs) :
        logs[k].pc = "fanout" =>
            /\ mu.w = G(k)
            /\ logs[k].i \in 1..(Len(subscribers) + 1)

\* What a step does while goroutine k is in its fan-out.
C6_Step(k) ==
    logs[k].pc = "fanout" =>
        /\ subscribers' = subscribers
        /\ logs'[k].pc = "fanout" => logs'[k].i \in {logs[k].i, logs[k].i + 1}
        /\ logs'[k].pc # "fanout" =>
               logs'[k].pc = "done" /\ logs[k].i = Len(subscribers) + 1
        /\ (logs'[k].pc = "fanout" /\ logs'[k].i = logs[k].i + 1
               /\ Receiving(subscribers[logs[k].i])) =>
               LET s == subscribers[logs[k].i]
               IN  sess'[s].pc = "write" /\ sess'[s].cur = logs[k].jm

\* C6: a log goroutine goes through the listeners registered when it logs,
\* one after the other and each once, whatever happened with the ones
\* before, and a listener whose session is waiting in its live loop when its
\* turn comes receives the event.
C6_Fanout ==
    /\ []C6_InFanout
    /\ [][\A k \in 1..Len(logs) : C6_Step(k)]_vars

\* The second listener has received an event that the first, whose session
\* was not receiving, has missed.
C6_Witness ==
    \E k \in 1..Len(logs) :
        /\ logs[k].pc = "fanout"
        /\ logs[k].i = 3
        /\ Len(subscribers) = 2
        /\ sess[subscribers[1]].pc = "rlock"
        /\ logs[k].jm \in sess[subscribers[1]].gap
        /\ sess[subscribers[2]].pc = "write"
        /\ sess[subscribers[2]].cur = logs[k].jm

\* The values unsubscribe has returned for each listener: true for the first
\* call, false for every later one, and no listener is closed twice.
C7_Returns ==
    \A l \in Sessions :
        /\ \A n \in 1..Len(unsubRet[l]) : unsubRet[l][n] = (n = 1)
        /\ closes[l] <= 1

\* A step in which a call of unsubscribe(l) returns.
C7_Call(l) ==
    Len(unsubRet'[l]) = Len(unsubRet[l]) + 1 =>
        LET found == unsubRet'[l][Len(unsubRet'[l])]
        IN  /\ found = Registered(subscribers, l)
            /\ found => /\ Len(subscribers') = Len(subscribers) - 1
                        /\ closes'[l] = closes[l] + 1
            /\ ~found => closes'[l] = closes[l]
            /\ subscribers' = SelectSeq(subscribers, LAMBDA x : x # l)
            /\ \A o \in Sessions \ {l} : closes'[o] = closes[o]
            /\ events' = events
            /\ msgs' = msgs

\* C7: the first unsubscribe of a registered listener returns true, removes
\* it and lowers the count by one; every later call returns false and
\* changes nothing; neither touches the other listeners or the history, and
\* no listener is closed twice.
C7_Idempotent ==
    /\ []C7_Returns
    /\ [][\A l \in Sessions : C7_Call(l)]_vars

\* unsubscribe was called twice on one listener while another one stayed
\* registered.
C7_Witness ==
    \E l \in Sessions :
        /\ unsubRet[l] = <<TRUE, FALSE>>
        /\ Len(subscribers) = 1
        /\ closes[l] = 1

Kinds(o) == [n \in 1..Len(o) |-> o[n].b.status]

\* No write of session s has failed.
NoWriteError(s) == sess[s].exit \notin {"replay", "live"}

\* C9: two events are logged through the log job one after the other and a
\* session then begins with since at or before their times and no filter:
\* it replays both in the order they were logged and waits in its live loop,
\* and an event logged afterwards is written to it live, after those two.
C9_EndToEnd ==
    NoWriteError(1) =>
        /\ sess[1].pc \in {"select", "write", "unsub", "done"} =>
               Kinds(Replayed(1)) = << <<"c">>, <<"s">> >>
        /\ sess[1].exit = "none"
        /\ (Len(logs) = 3 /\ logs[3].pc = "done") =>
               /\ Kinds(sess[1].out) = << <<"c">>, <<"s">>, <<"d">> >>
               /\ sess[1].out[3].mode = "live"

\* What a session with a deadline has done so far: it returns nil when it
\* ends through the deadline or the closing of its listener, an error only
\* for bad filters or a failed write, and without since it replays nothing.
C10_Safe ==
    \A s \in Sessions :
        /\ sess[s].exit \in {"timeout", "closed"} => sess[s].ret = "nil"
        /\ sess[s].ret = "err" <=> sess[s].exit \in {"filters", "replay", "live"}
        /\ sess[s].since = 0 => Replayed(s) = <<>>

\* C10 as amended: a session with until # 0 ends once the deadline has
\* passed, without error unless its filters are bad or a write fails, and
\* with since = 0 it replays nothing, also when until is in the past.
C10_Deadline ==
    /\ \A s \in Sessions :
           (sess[s].pc \notin {"idle", "done"} /\ sess[s].until # 0
               /\ now >= sess[s].until)
               ~> (sess[s].pc = "done")
    /\ []C10_Safe

\* A session begun after its deadline, with since = 0, has ended through the
\* timer without error after writing an event it received live.
C10_Witness ==
    \E s \in Sessions :
        /\ sess[s].pc = "done"
        /\ sess[s].since = 0
        /\ sess[s].until # 0 /\ sess[s].until < sess[s].began
        /\ sess[s].exit = "timeout" /\ sess[s].ret = "nil"
        /\ Len(sess[s].out) = 1 /\ sess[s].out[1].mode = "live"

\* C10 as claimed: a session with since = 0 that begins after its deadline
\* replays nothing and relays no live event.
C10_PastUntil ==
    \A s \in Sessions :
        (sess[s].since = 0 /\ sess[s].until # 0 /\ sess[s].until < sess[s].began) =>
            sess[s].out = <<>>

\* The record that session s passes to writeEvent in this step, or 0: the
\* event it received, or the record of the history its replay is at if that
\* is in the range.
WriteEventOn(s) ==
    IF sess[s].pc = "write" /\ sess'[s].pc # "write"
    THEN sess[s].cur
    ELSE IF /\ sess[s].pc = "replay"
            /\ sess'[s].pc = "unsub" \/ sess'[s].i = sess[s].i + 1
            /\ sess[s].i <= Len(events)
            /\ InRange(msgs[events[sess[s].i]], sess[s].since, sess[s].until)
    THEN events[sess[s].i]
    ELSE 0

\* In this step session s wrote a record to its output or failed to.
Attempted(s) ==
    \/ Len(sess'[s].out) = Len(sess[s].out) + 1
    \/ sess'[s].fault # "none"

\* field is v followed by ":" and more.
HasPrefix(field, v) ==
    /\ Len(field) > Len(v)
    /\ SubSeq(field, 1, Len(v)) = v
    /\ field[Len(v) + 1] = Colon

\* Some accepted value equals the field.
C11_Exact(field, filter) == \E n \in 1..Len(filter) : filter[n] = field

\* A record passes when its kind and its id are equal to an accepted value
\* and its source is equal to one or is one followed by ":"; a dimension
\* without accepted values passes.
C11_Passes(ev, f) ==
    /\ f.event = <<>> \/ C11_Exact(ev.Status, f.event)
    /\ f.container = <<>> \/ C11_Exact(ev.ID, f.container)
    /\ \/ f.image = <<>>
       \/ C11_Exact(ev.From, f.image)
       \/ \E n \in 1..Len(f.image) : HasPrefix(ev.From, f.image[n])

\* C11: the prefix rule holds for the source only: a record given to
\* writeEvent is written exactly if its source is an accepted value or
\* begins with one followed by ":", and its kind and its id are equal to
\* accepted values (the id values as resolved).
C11_PrefixRule ==
    [][\A s \in Sessions :
          WriteEventOn(s) # 0 =>
              (Attempted(s) <=>
                  C11_Passes(msgs[WriteEventOn(s)], Resolved(sess[s].filters)))]_vars

\* Some accepted value is the field or the field up to its first ":".
C12_Satisfied(field, filter) ==
    \E n \in 1..Len(filter) :
        \/ filter[n] = field
        \/ Contains(field, Colon) /\ SplitFirst(field) = filter[n]

\* The accepted container values that resolve, as resolved.
C12_Resolvable(filter) ==
    LET ok == SelectSeq(filter, LAMBDA cn : ~ContainerInspect(cn).err)
    IN  [n \in 1..Len(ok) |-> ContainerInspect(ok[n]).ID]

\* A record passes when every dimension with accepted values is satisfied;
\* a container value that does not resolve satisfies nothing.
C12_Passes(ev, f) ==
    /\ f.event = <<>> \/ C12_Satisfied(ev.Status, f.event)
    /\ f.image = <<>> \/ C12_Satisfied(ev.From, f.image)
    /\ f.container = <<>> \/ C12_Satisfied(ev.ID, C12_Resolvable(f.container))

\* C12: a record given to writeEvent is written exactly if it satisfies
\* every dimension that has accepted values; a dimension without accepted
\* values suppresses nothing and a container value that cannot be resolved
\* matches no record.
C12_Conjunction ==
    [][\A s \in Sessions :
          WriteEventOn(s) # 0 =>
              (Attempted(s) <=>
                  C12_Passes(msgs[WriteEventOn(s)], sess[s].param.args))]_vars

\* What the last call of writeEvent by each session met: after a failed
\* write the session has the error and is ending or has ended, and has
\* ended only with its listener closed and out of the registry; after a
\* failed json.Marshal it has no error.
C13_After ==
    \A s \in Sessions :
        /\ sess[s].fault = "write" =>
               /\ sess[s].ret = "err"
               /\ sess[s].exit \in {"replay", "live"}
               /\ sess[s].pc \in {"unsub", "done"}
               /\ sess[s].pc = "done" => closes[s] = 1 /\ ~Registered(subscribers, s)
        /\ sess[s].fault = "marshal" =>
               /\ sess[s].ret # "err"
               /\ sess[s].exit \notin {"replay", "live"}

\* A step of session s or of another goroutine: nothing is written and
\* writeEvent is not called again after a failed write, and a failed
\* json.Marshal leaves the output as it is and the session in its loop.
C13_Step(s) ==
    /\ sess[s].fault = "write" =>
           /\ sess'[s].out = sess[s].out
           /\ sess'[s].fault = "write"
           /\ sess'[s].ret = "err"
           /\ WriteEventOn(s) = 0
    /\ (WriteEventOn(s) # 0 /\ sess'[s].fault = "write") =>
           /\ sess'[s].out = sess[s].out
           /\ sess'[s].pc = "unsub"
    /\ (WriteEventOn(s) # 0 /\ sess'[s].fault = "marshal") =>
           /\ sess'[s].out = sess[s].out
           /\ sess'[s].ret = "none"
           /\ sess[s].pc = "write" => sess'[s].pc = "select"
           /\ sess[s].pc = "replay" =>
                  sess'[s].pc = "replay" /\ sess'[s].i = sess[s].i + 1

\* C13: a failed write to the output, in the replay or in the live loop,
\* ends the session with that error after the listener is unsubscribed,
\* without another write; a failed json.Marshal only leaves that record
\* out and the session goes on.
C13_Errors ==
    /\ []C13_After
    /\ [][\A s \in Sessions : C13_Step(s)]_vars

\* One session has ended with the error of a failed write in its live loop
\* and is unsubscribed; the other replayed a record, left the next one out
\* because json.Marshal failed, and is waiting in its live loop.
C13_Witness ==
    \E s, u \in Sessions :
        /\ sess[s].pc = "done" /\ sess[s].fault = "write" /\ sess[s].exit = "live"
        /\ closes[s] = 1
        /\ sess[u].pc = "select" /\ sess[u].fault = "marshal"
        /\ Len(sess[u].out) = 1 /\ sess[u].out[1].mode = "replay"
        /\ Len(events) = 2

\* A Get whose filters do not parse has returned the error once it is past
\* the parsing: it wrote nothing and its listener was never registered,
\* closed or unsubscribed.
C14_Returned ==
    \A s \in Sessions :
        (~sess[s].param.ok /\ sess[s].pc \notin {"idle", "parse"}) =>
            /\ sess[s].pc = "done"
            /\ sess[s].ret = "err"
            /\ sess[s].exit = "filters"
            /\ sess[s].out = <<>>
            /\ ~Registered(subscribers, s)
            /\ closes[s] = 0
            /\ unsubRet[s] = <<>>

\* C14: a Get whose filters are malformed returns an error before the
\* session starts: the step that finds the error leaves the registry, its
\* length, the history and the lock as they are, and the job never
\* registers a listener or writes.
C14_Malformed ==
    /\ []C14_Returned
    /\ [][\A s \in Sessions :
             (sess[s].pc = "parse" /\ ~sess[s].param.ok /\ sess'[s].pc # "parse") =>
                 /\ subscribers' = subscribers
                 /\ events' = events
                 /\ msgs' = msgs
                 /\ mu' = mu
                 /\ closes' = closes]_vars

\* A Get with malformed filters has returned its error while the history
\* holds two records.
C14_Witness ==
    /\ ~sess[1].param.ok
    /\ sess[1].pc = "done" /\ sess[1].ret = "err" /\ sess[1].exit = "filters"
    /\ Len(events) = 2
    /\ subscribers = <<>>

\* No listener is closed more than once, and the listener of a Get that
\* registered it and has returned is closed.
C15_Closed ==
    \A l \in Sessions :
        /\ closes[l] <= 1
        /\ (sess[l].pc = "done" /\ sess[l].exit # "filters") => closes[l] = 1

\* A step that closes listener l is a call of unsubscribe that finds l in
\* the registry and takes it out; a step that puts an event on l is the send
\* of the log goroutine that holds the write lock and whose fan-out is at l,
\* and l is open.
C15_Step(l) ==
    /\ closes'[l] # closes[l] =>
           /\ closes'[l] = closes[l] + 1
           /\ unsubRet'[l] = Append(unsubRet[l], TRUE)
           /\ Registered(subscribers, l)
           /\ ~Registered(subscribers', l)
    /\ (sess'[l].cur # sess[l].cur /\ sess'[l].cur # 0) =>
           /\ closes[l] = 0
           /\ \E k \in 1..Len(logs) :
                  /\ logs[k].pc = "fanout"
                  /\ mu.w = G(k)
                  /\ logs[k].i <= Len(subscribers)
                  /\ subscribers[logs[k].i] = l
                  /\ sess'[l].cur = logs[k].jm

\* C15: a listener channel is closed once, by unsubscribe and by nothing
\* else, never twice under any interleaving, and only the fan-out of log
\* sends on it.
C15_ClosedOnce ==
    /\ []C15_Closed
    /\ [][\A l \in Sessions : C15_Step(l)]_vars

\* A session wrote an event it received, its listener was then unsubscribed
\* by another caller, and the unsubscribe deferred by Get found it gone: the
\* listener is closed once.
C15_Witness ==
    \E l \in Sessions :
        /\ sess[l].pc = "done" /\ sess[l].exit = "closed"
        /\ unsubRet[l] = <<TRUE, FALSE>>
        /\ closes[l] = 1
        /\ Len(sess[l].out) = 1 /\ sess[l].out[1].mode = "live"

\* The log goroutines inside the critical section of log.
Writing == {k \in 1..Len(logs) : logs[k].pc = "fanout"}

\* The goroutines inside a critical section that reads: the replays and the
\* subscribers_count job.
Reading ==
    {S(s) : s \in {u \in Sessions : sess[u].pc = "replay"}}
        \cup (IF count.pc = "read" THEN {C} ELSE {})

\* At most one goroutine is inside a critical section that writes, and none
\* that reads is inside with it.
C16_Exclusive ==
    /\ Cardinality(Writing) <= 1
    /\ Writing # {} => Reading = {}

\* A step that changes the history or the registry is taken while no other
\* goroutine is inside a critical section, and a count reads the length the
\* registry has.
C16_Step ==
    /\ (events' # events \/ subscribers' # subscribers \/ msgs' # msgs) =>
           Writing = {} /\ Reading = {}
    /\ (count.pc = "read" /\ count'.pc = "idle") =>
           count'.c = Len(subscribers) /\ subscribers' = subscribers

\* C16: the history and the registry change only in steps taken while no
\* other goroutine is inside a critical section on the lock, so log,
\* subscribe and unsubscribe exclude one another and the replays and
\* counts, which may overlap one another; a count reads the length the
\* registry has while it holds the lock.
C16_Serialized ==
    /\ []C16_Exclusive
    /\ [][C16_Step]_vars

\* Two replays and a count are inside their critical sections at once,
\* with two listeners registered and a log goroutine waiting for the lock.
C16_Witness ==
    /\ \A s \in Sessions : sess[s].pc = "replay"
    /\ count.pc = "read"
    /\ Len(subscribers) = NumSessions
    /\ \E k \in 1..Len(logs) : logs[k].pc = "lock"
    /\ events # <<>>

\* C17: a session writes no event twice: the events in its output are
\* distinct, so none is both replayed and relayed live, and an event it has
\* just received is not one it has written.
C17_NoDuplicate ==
    \A s \in Sessions :
        /\ \A n, m \in 1..Len(sess[s].out) :
               n # m => sess[s].out[n].jm # sess[s].out[m].jm
        /\ sess[s].cur # 0 => ~Emitted(s, sess[s].cur)

\* A session replayed the first event and wrote the second one live, while
\* both are in the history.
C17_Witness ==
    \E s \in Sessions :
        /\ Len(sess[s].out) = 2
        /\ sess[s].out[1].mode = "replay" /\ sess[s].out[1].jm = 1
        /\ sess[s].out[2].mode = "live" /\ sess[s].out[2].jm = 2
        /\ events = <<1, 2>>

\* C18: every listener in the registry is open, so the listener a fan-out
\* is about to send on is open: log never sends on a closed channel.
C18_RegistryOpen ==
    /\ \A n \in 1..Len(subscribers) : closes[subscribers[n]] = 0
    /\ \A k \in 1..Len(logs) :
           (logs[k].pc = "fanout" /\ logs[k].i <= Len(subscribers)) =>
               /\ closes[subscribers[logs[k].i]] = 0
               /\ sess[subscribers[logs[k].i]].pc \notin {"idle", "parse", "subscribe", "done"}

\* A log goroutine is about to send on the one listener still registered
\* after the other session has ended and its listener was closed.
C18_Witness ==
    \E k \in 1..Len(logs), l \in Sessions :
        /\ logs[k].pc = "fanout" /\ logs[k].i = 1
        /\ Len(subscribers) = 1 /\ subscribers[1] # l
        /\ closes[l] = 1 /\ sess[l].pc = "done"
        /\ Receiving(subscribers[1])

\* The events session s wrote in its live loop, in the order written.
Relayed(s) == SelectSeq(sess[s].out, LAMBDA o : o.mode = "live")

\* C19: the events a session receives come in the order of their insertion
\* into the history, however many log goroutines run at once: those it has
\* written live are in insertion order and the one it has just received was
\* inserted after all of them.
C19_LiveOrder ==
    \A s \in Sessions :
        /\ \A n, m \in 1..Len(Relayed(s)) :
               n < m => Relayed(s)[n].jm < Relayed(s)[m].jm
        /\ sess[s].cur # 0 =>
               \A n \in 1..Len(Relayed(s)) : Relayed(s)[n].jm < sess[s].cur

\* Two log goroutines ran at once and the one started second inserted
\* first; a session has written both events live.
C19_Witness ==
    \E s \in Sessions :
        /\ Len(Relayed(s)) = 2
        /\ Len(logs) = 2
        /\ logs[2].jm = 1 /\ logs[1].jm = 2
        /\ events = <<1, 2>>

\* Who holds the lock: the write lock is held by a log goroutine in its
\* fan-out, the read lock only by sessions in their replay, so a session
\* that has left writeCurrent, on whichever path, does not hold it; and
\* every holder has a step it can take.
C20_Held ==
    /\ mu.w # Free => \E k \in 1..Len(logs) : mu.w = G(k) /\ logs[k].pc = "fanout"
    /\ mu.r = {S(s) : s \in {u \in Sessions : sess[u].pc = "replay"}}
    /\ \A k \in 1..Len(logs) :
           logs[k].pc = "fanout" =>
               ENABLED (Handoff(k) \/ HandoffTimeout(k) \/ LogUnlock(k))
    /\ \A s \in Sessions :
           sess[s].pc = "replay" => ENABLED (Replay(s) \/ ReplayUnlock(s))

\* Nobody holds the lock or waits for it.
C20_Quiet ==
    /\ mu = [w |-> Free, r |-> {}]
    /\ \A k \in 1..Len(logs) : logs[k].pc \notin {"lock", "fanout"}
    /\ \A s \in Sessions : sess[s].pc \notin {"subscribe", "rlock", "replay", "unsub"}

\* C20: log goroutines and sessions never deadlock on the lock: who holds it
\* can always go on, the replay has released the read lock on every path
\* before the deferred unsubscribe asks for the write lock, a log goroutine
\* gets past a listener whose session waits for the lock, and in the end
\* everybody who asked for the lock has had it and released it.
C20_NoDeadlock ==
    /\ []C20_Held
    /\ <>[]C20_Quiet

\* A log goroutine holds the write lock with its fan-out at the listener of
\* a session that, after a write error in its replay, waits for the write
\* lock in its deferred unsubscribe.
C20_Witness ==
    \E k \in 1..Len(logs), s \in Sessions :
        /\ logs[k].pc = "fanout"
        /\ logs[k].i <= Len(subscribers)
        /\ subscribers[logs[k].i] = s
        /\ sess[s].pc = "unsub" /\ sess[s].exit = "replay"
        /\ mu.w = G(k)

====
